---- MODULE Spec2Model ----
(***************************************************************************)
(* A model of the netstore file server (src/server.cpp): the UDP command   *)
(* dispatcher (read_requests and its handlers), the space ledger           *)
(* (available_space / negative_space), the catalog (state.files), the      *)
(* shared folder on disk, and the forked transfer processes (receive_file, *)
(* send_file).                                                             *)
(*                                                                         *)
(* Strings are sequences of one-character strings.  A file on disk is a    *)
(* directory entry (disk: path -> inode number, 0 = no entry) and an inode *)
(* (isize: inode number -> size), so that a process can keep writing to a  *)
(* file that has been unlinked, as POSIX has it.                           *)
(***************************************************************************)
EXTENDS Integers, Sequences, FiniteSets, TLC

VARIABLES
    options,          \* server_options: [MAX_SPACE, MCAST_ADDR]
    indexed,          \* the directory listing index_files enumerated at startup
    available_space,  \* server_state.available_space
    negative_space,   \* server_state.negative_space
    files,            \* server_state.files: sequence of paths
    disk,             \* shared folder: path -> inode number (0: no such file)
    isize,            \* inode number -> size in bytes
    transfers,        \* forked children, in fork order
    fork_limit,       \* how many children the run may fork (a bound of the run)
    dispatcher,       \* the parent process: "serving" | "terminated" (an exception
                      \* reached main) | "interrupted" (catch_sigint ran)
    drops,            \* IP_DROP_MEMBERSHIP calls made on the multicast socket
    last              \* the step just taken: who took it, the datagram, the replies

vars == <<options, indexed, available_space, negative_space, files, disk, isize,
          transfers, fork_limit, dispatcher, drops, last>>

(***************************************************************************)
(* Bounds of the model.                                                    *)
(***************************************************************************)
MaxSpace == 2        \* quotas 0..MaxSpace
MaxFileSize == 3     \* sizes of the files found at startup
MaxStartFiles == 1   \* files found at startup
MaxParam == 2        \* declared sizes of ADD requests
MaxTransfers == 1    \* children forked in one run of the server
MaxCatalog == 3      \* catalog entries of the searches
MaxChunk == 2        \* bytes returned by one read() of the TCP stream
MaxSeq == 1          \* sequence numbers 0..MaxSeq
MaxPorts == 2        \* ports the kernel may give to a listening socket

(***************************************************************************)
(* Program constants.                                                      *)
(***************************************************************************)
\* uint64_t arithmetic wraps; the width is scaled down to 16 bits so that the
\* model checker's integers can hold it.
UintMod == 65536
\* connection.h: the largest payload of a simple command (scaled down).
MAX_SIMPL_DATA_LEN == 5

Sep == "\n"
Slash == "/"
SHRD_FLDR == <<"d">>

Add(a, b) == (a + b) % UintMod
Sub(a, b) == (a - b + UintMod) % UintMod
Min(a, b) == IF a < b THEN a ELSE b
Max(a, b) == IF a < b THEN b ELSE a

(***************************************************************************)
(* Strings.                                                                *)
(***************************************************************************)
\* std::string::find(char) != npos
HasChar(s, ch) == \E i \in 1..Len(s) : s[i] = ch

\* std::string::find(t) != npos
Contains(s, t) ==
    \E i \in 0..(Len(s) - Len(t)) : SubSeq(s, i + 1, i + Len(t)) = t

\* options.SHRD_FLDR + "/" + request.data
PathOf(data) == SHRD_FLDR \o <<Slash>> \o data

\* fs::path::filename(): what follows the last separator
Filename(path) ==
    LET slashes == {i \in 1..Len(path) : path[i] = Slash}
        from == IF slashes = {} THEN 0
                ELSE CHOOSE i \in slashes : \A j \in slashes : j <= i
    IN  SubSeq(path, from + 1, Len(path))

\* the names of the server runs: two that upload accepts, two that it refuses
ValidNames == {<<"a">>, <<"b", "b", "b">>}
RequestNames == ValidNames \cup {<<>>, <<"a", Slash, "a">>}

\* the names of the searches, each shorter than MAX_SIMPL_DATA_LEN; a file
\* name may hold any character but the path separator
SearchNames == {<<"a">>, <<"a", "b">>, <<"b", "b", "b">>, <<"a", Sep, "b">>,
                <<"b", "a", "b", "a">>}
SearchTargets == {<<>>, <<"a">>, <<"b">>, <<"b", "b">>, <<Sep>>, <<"z">>}

MaxChildren == MaxTransfers + 1
DiskPaths == {PathOf(n) : n \in ValidNames \cup SearchNames}
InoIds == 1..(Max(MaxStartFiles, MaxCatalog) + MaxChildren)

(***************************************************************************)
(* Startup: index_files.                                                   *)
(***************************************************************************)
\* the options the server runs with: the quota, and the multicast address
MCAST_ADDR == <<"m">>
Options(q) == [MAX_SPACE |-> q, MCAST_ADDR |-> MCAST_ADDR]

FileEntry == [name : ValidNames, size : 0..MaxFileSize]

\* what the directory iterator may enumerate: regular files, distinct names
Listings ==
    UNION {{l \in [1..n -> FileEntry] :
               \A i, j \in 1..n : l[i].name = l[j].name => i = j} :
           n \in 0..MaxStartFiles}

\* the scenario of the specification: quota 100, one file of 150 bytes
ExampleOptions == Options(100)
ExampleListing == <<[name |-> <<"a">>, size |-> 150]>>

StartConfigs ==
    {<<Options(q), l>> : q \in 0..MaxSpace, l \in Listings}
        \cup {<<ExampleOptions, ExampleListing>>}

\* the reserve rule counting the whole file as debt
reserve_FullDebt(ledger, current_file_size) ==
    IF ledger[1] < current_file_size
    THEN <<0, Add(ledger[2], current_file_size)>>
    ELSE <<Sub(ledger[1], current_file_size), ledger[2]>>

\* the reserve rule keeping what was available when a file does not fit
reserve_KeepsSpace(ledger, current_file_size) ==
    IF ledger[1] < current_file_size
    THEN <<ledger[1], Add(ledger[2], Sub(current_file_size, ledger[1]))>>
    ELSE <<Sub(ledger[1], current_file_size), ledger[2]>>

\* one iteration of the loop of index_files on the ledger <<available, negative>>
reserve(ledger, current_file_size) ==
    IF ledger[1] < current_file_size
    THEN <<0, Add(ledger[2], Sub(current_file_size, ledger[1]))>>
    ELSE <<Sub(ledger[1], current_file_size), ledger[2]>>

RECURSIVE index_loop(_, _)
index_loop(ledger, listing) ==
    IF listing = <<>> THEN ledger
    ELSE index_loop(reserve(ledger, Head(listing).size), Tail(listing))

\* the ledger index_files leaves
index_files(opts, listing) == index_loop(<<opts.MAX_SPACE, 0>>, listing)

\* state.files after index_files: the paths in enumeration order
CatalogOf(listing) == [i \in 1..Len(listing) |-> PathOf(listing[i].name)]

NoRequest == [by |-> "main", cmd |-> "index", data |-> <<>>, param |-> 0,
              seq |-> 0, replies |-> <<>>]

Init ==
    /\ \E cfg \in StartConfigs :
          /\ options = cfg[1]
          /\ indexed = cfg[2]
    /\ available_space = index_files(options, indexed)[1]
    /\ negative_space = index_files(options, indexed)[2]
    /\ files = CatalogOf(indexed)
    /\ disk = [p \in DiskPaths |->
                 IF \E i \in 1..Len(indexed) : PathOf(indexed[i].name) = p
                 THEN CHOOSE i \in 1..Len(indexed) : PathOf(indexed[i].name) = p
                 ELSE 0]
    /\ isize = [k \in InoIds |-> IF k <= Len(indexed) THEN indexed[k].size ELSE 0]
    /\ transfers = <<>>
    /\ fork_limit = MaxTransfers
    /\ dispatcher = "serving"
    /\ drops = 0
    /\ last = NoRequest

(***************************************************************************)
(* The file system.                                                        *)
(***************************************************************************)
Exists(d, path) == path \in DOMAIN d /\ d[path] # 0

\* an inode with no directory entry and no open descriptor is freed
Referenced(d, ts, k) ==
    \/ \E p \in DOMAIN d : d[p] = k
    \/ \E c \in 1..Len(ts) : ts[c].fd = k

Reclaim(d, ts, sz) == [k \in InoIds |-> IF Referenced(d, ts, k) THEN sz[k] ELSE 0]

\* unlink(path) / fs::remove(path): drops the directory entry, whoever made it
Unlink(d, path) == [p \in DOMAIN d |-> IF p = path THEN 0 ELSE d[p]]

(***************************************************************************)
(* The message codec of connection.h.                                      *)
(***************************************************************************)
Message(cmd, data, seq, param) ==
    [cmd |-> cmd, data |-> data, seq |-> seq, param |-> param]

send_simple_message(cmd, data, seq) == Message(cmd, data, seq, 0)
send_complex_message(cmd, data, seq, param) == Message(cmd, data, seq, param)
error_message(seq) == Message("ERROR", <<>>, seq, 0)

check_data_empty(data) == data = <<>>
check_data_not_empty(data) == data # <<>>

Handled(cmd, data, param, seq, replies) ==
    [by |-> "dispatcher", cmd |-> cmd, data |-> data, param |-> param,
     seq |-> seq, replies |-> replies]

(***************************************************************************)
(* The catalog and the ledger, as the handlers compute on them.            *)
(***************************************************************************)
\* the loops of remove, fetch and upload: the first entry named data, or 0
FindFile(fs, data) ==
    LET hits == {i \in 1..Len(fs) : Filename(fs[i]) = data}
    IN  IF hits = {} THEN 0 ELSE CHOOSE i \in hits : \A j \in hits : i <= j

\* state.files.erase(it)
Erase(fs, i) == SubSeq(fs, 1, i - 1) \o SubSeq(fs, i + 1, Len(fs))

\* upload's test with the space check off by one
UploadRefused_OffByOne(avail, fs, param, data) ==
    \/ avail <= param
    \/ \E i \in 1..Len(fs) : Filename(fs[i]) = data
    \/ HasChar(data, Slash)
    \/ data = <<>>

\* upload's test without the look-up of the name in the catalog
UploadRefused_NoLookup(avail, fs, param, data) ==
    \/ avail < param
    \/ HasChar(data, Slash)
    \/ data = <<>>

\* upload's test (lines 456-457): TRUE when NO_WAY is answered
UploadRefused(avail, fs, param, data) ==
    \/ avail < param
    \/ FindFile(fs, data) # 0
    \/ HasChar(data, Slash)
    \/ data = <<>>

\* remove's arithmetic restoring capacity while a part of the debt remains
Refund_PartialRestores(ledger, size) ==
    IF ledger[2] > 0
    THEN IF ledger[2] > size
         THEN <<Add(ledger[1], size), Sub(ledger[2], size)>>
         ELSE <<Add(ledger[1], Sub(size, ledger[2])), 0>>
    ELSE <<Add(ledger[1], size), ledger[2]>>

\* remove's arithmetic with the debt reduced whatever the size
Refund_Underflow(ledger, size) ==
    IF ledger[2] > 0
    THEN <<ledger[1], Sub(ledger[2], size)>>
    ELSE <<Add(ledger[1], size), ledger[2]>>

\* remove's arithmetic (lines 232-244) on <<available, negative>>
Refund(ledger, size) ==
    IF ledger[2] > 0
    THEN IF ledger[2] > size
         THEN <<ledger[1], Sub(ledger[2], size)>>
         ELSE <<Add(ledger[1], Sub(size, ledger[2])), 0>>
    ELSE <<Add(ledger[1], size), ledger[2]>>

(***************************************************************************)
(* list: the matching names and their packing into MY_LIST datagrams.      *)
(***************************************************************************)
RECURSIVE Matching(_, _)
Matching(fs, target) ==
    IF fs = <<>> THEN <<>>
    ELSE (IF Contains(Filename(Head(fs)), target)
          THEN <<Filename(Head(fs))>> ELSE <<>>) \o Matching(Tail(fs), target)

\* the inner loop losing the name it could not fit
RECURSIVE PackOne_Drop(_, _, _)
PackOne_Drop(data, current, results) ==
    IF results # <<>> /\ Len(data) + Len(current) + 1 < MAX_SIMPL_DATA_LEN
    THEN PackOne_Drop(data \o <<Sep>> \o Head(results), Head(results), Tail(results))
    ELSE <<data, IF results = <<>> THEN <<>> ELSE Tail(results)>>

\* the inner loop (lines 270-274): <<data, results left>>
RECURSIVE PackOne(_, _, _)
PackOne(data, current, results) ==
    IF results # <<>> /\ Len(data) + Len(current) + 1 < MAX_SIMPL_DATA_LEN
    THEN PackOne(data \o <<Sep>> \o Head(results), Head(results), Tail(results))
    ELSE <<data, results>>

\* the outer loop (lines 264-278): the payloads sent, in order
RECURSIVE Packets(_)
Packets(results) ==
    IF results = <<>> THEN <<>>
    ELSE LET one == PackOne(Head(results), Head(results), Tail(results))
         IN  <<one[1]>> \o Packets(one[2])

ListReplies(fs, target, seq) ==
    LET payloads == Packets(Matching(fs, target))
    IN  [i \in 1..Len(payloads) |-> send_simple_message("MY_LIST", payloads[i], seq)]

(***************************************************************************)
(* Forked children.                                                        *)
(***************************************************************************)
\* the child right after fork, in create_tcp_socket: its copy of the parent's
\* state (open_files is empty there: only children insert), its locals, the
\* listening socket and the port it is bound to (0: none yet), and whether a
\* SIGINT sent to it is waiting to be handled;
\* got counts the bytes of the TCP stream read before the ones in the buffer;
\* seq is request.cmd_seq, which the child reads once, to announce its port
Child(kind, data, path, param, seq) ==
    [kind |-> kind, data |-> data, path |-> path, param |-> param, seq |-> seq,
     pc |-> "forked", remaining |-> param, read_len |-> 0, got |-> 0, off |-> 0,
     error |-> FALSE, fd |-> 0, open_files |-> {}, sock |-> "listening",
     port |-> 0,
     sigint |-> FALSE, result |-> "none"]

CanFork == Len(transfers) < fork_limit

(***************************************************************************)
(* The dispatcher: one action per handler of read_requests.                *)
(***************************************************************************)
Discover(data, seq) ==
    /\ dispatcher = "serving"
    /\ last' = Handled("HELLO", data, 0, seq,
                       IF check_data_empty(data)
                       THEN <<send_complex_message("GOOD_DAY", options.MCAST_ADDR, seq,
                                                  available_space)>>
                       ELSE <<error_message(seq)>>)
    /\ UNCHANGED <<options, indexed, available_space, negative_space, files, disk,
                   isize, transfers, fork_limit, dispatcher, drops>>

Remove(data, seq) ==
    /\ dispatcher = "serving"
    /\ LET i == FindFile(files, data)
       IN  IF ~check_data_not_empty(data)
           THEN /\ last' = Handled("DEL", data, 0, seq, <<error_message(seq)>>)
                /\ UNCHANGED <<available_space, negative_space, files, disk, isize,
                               dispatcher>>
           ELSE /\ last' = Handled("DEL", data, 0, seq, <<>>)
                /\ IF i = 0
                   THEN UNCHANGED <<available_space, negative_space, files, disk,
                                    isize, dispatcher>>
                   ELSE IF ~Exists(disk, files[i])
                   THEN \* file_size throws: the exception leaves read_requests
                        /\ dispatcher' = "terminated"
                        /\ UNCHANGED <<available_space, negative_space, files, disk,
                                       isize>>
                   ELSE LET ledger == Refund(<<available_space, negative_space>>,
                                             isize[disk[files[i]]])
                        IN  /\ available_space' = ledger[1]
                            /\ negative_space' = ledger[2]
                            /\ disk' = Unlink(disk, files[i])
                            /\ isize' = Reclaim(disk', transfers, isize)
                            /\ files' = Erase(files, i)
                            /\ UNCHANGED dispatcher
    /\ UNCHANGED <<options, indexed, transfers, fork_limit, drops>>

List(data, seq) ==
    /\ dispatcher = "serving"
    /\ last' = Handled("LIST", data, 0, seq, ListReplies(files, data, seq))
    /\ UNCHANGED <<options, indexed, available_space, negative_space, files, disk,
                   isize, transfers, fork_limit, dispatcher, drops>>

Fetch(data, seq, fork_ok) ==
    /\ dispatcher = "serving"
    /\ LET i == FindFile(files, data)
       IN  IF i = 0
           THEN /\ last' = Handled("GET", data, 0, seq, <<error_message(seq)>>)
                /\ UNCHANGED <<transfers, dispatcher>>
           ELSE /\ last' = Handled("GET", data, 0, seq, <<>>)
                /\ IF fork_ok
                   THEN /\ CanFork
                        /\ transfers' = Append(transfers,
                                               Child("fetch", data, files[i], 0, seq))
                        /\ UNCHANGED dispatcher
                   ELSE /\ dispatcher' = "terminated"
                        /\ UNCHANGED transfers
    /\ UNCHANGED <<options, indexed, available_space, negative_space, files, disk,
                   isize, fork_limit, drops>>

Upload(data, param, seq, fork_ok) ==
    /\ dispatcher = "serving"
    /\ IF UploadRefused(available_space, files, param, data)
       THEN /\ last' = Handled("ADD", data, param, seq,
                               <<send_simple_message("NO_WAY", data, seq)>>)
            /\ UNCHANGED <<available_space, files, transfers, dispatcher>>
       ELSE /\ last' = Handled("ADD", data, param, seq, <<>>)
            /\ available_space' = Sub(available_space, param)
            /\ files' = Append(files, PathOf(data))
            /\ IF fork_ok
               THEN /\ CanFork
                    /\ transfers' = Append(transfers,
                                           Child("upload", data, PathOf(data), param,
                                                 seq))
                    /\ UNCHANGED dispatcher
               ELSE /\ dispatcher' = "terminated"
                    /\ UNCHANGED transfers
    /\ UNCHANGED <<options, indexed, negative_space, disk, isize, fork_limit, drops>>

Unrecognized(seq) ==
    /\ dispatcher = "serving"
    /\ last' = Handled("?", <<>>, 0, seq, <<error_message(seq)>>)
    /\ UNCHANGED <<options, indexed, available_space, negative_space, files, disk,
                   isize, transfers, fork_limit, dispatcher, drops>>

\* recvfrom fails (line 487): the exception leaves read_requests and is caught
\* in main, which prints it and returns
ReceiveFails ==
    /\ dispatcher = "serving"
    /\ dispatcher' = "terminated"
    /\ last' = [by |-> "dispatcher", cmd |-> "recvfrom", data |-> <<>>, param |-> 0,
                seq |-> 0, replies |-> <<>>]
    /\ UNCHANGED <<options, indexed, available_space, negative_space, files, disk,
                   isize, transfers, fork_limit, drops>>

(***************************************************************************)
(* The children: receive_file (upload) and send_file (fetch).  One action  *)
(* per call that other processes can observe (open, write, unlink, exit);  *)
(* a read() of the child's own TCP socket is taken together with the step  *)
(* before it.                                                              *)
(***************************************************************************)
BSIZE == MaxChunk

Stepped(c, what) ==
    [by |-> "transfer", cmd |-> what, data |-> <<>>, param |-> c, seq |-> 0,
     replies |-> <<>>]

\* the process is gone without an exit, back in the loop of read_requests
Exited_Returns(t, result) ==
    [t EXCEPT !.pc = IF result = "threw" THEN "serving" ELSE "exited",
              !.seq = 0, !.port = 0, !.fd = 0, !.read_len = 0, !.remaining = 0, !.got = 0,
              !.off = 0, !.error = FALSE, !.open_files = {}, !.sock = "closed",
              !.sigint = FALSE, !.result = result]

\* exit(0), exit(-1) of the handler, or the exception caught in the child's main:
\* the process is gone, its descriptors are closed, its memory is freed
Exited(t, result) ==
    [t EXCEPT !.pc = "exited", !.seq = 0, !.port = 0, !.fd = 0, !.read_len = 0,
              !.remaining = 0, !.got = 0, !.off = 0, !.error = FALSE,
              !.open_files = {}, !.sock = "closed", !.sigint = FALSE,
              !.result = result]

Dispatcher == <<options, indexed, available_space, negative_space, files,
                fork_limit, dispatcher, drops>>

\* the ports bind to port 0 may pick (line 294): any port of the kernel's
\* ephemeral range, here scaled down to MaxPorts numbers
Ports == 1..MaxPorts

\* the ports no living child's socket is bound to
FreePorts(ts) == {p \in Ports : \A e \in 1..Len(ts) : ts[e].port # p}

\* the datagram a child sends before it waits: CAN_ADD with the port
\* (lines 399-400), CONNECT_ME with the file name and the port (lines 326-327)
Announcement(t, port) ==
    IF t.kind = "upload"
    THEN send_complex_message("CAN_ADD", <<>>, t.seq, port)
    ELSE send_complex_message("CONNECT_ME", t.data, t.seq, port)

\* create_tcp_socket, where the kernel picks a free port, and the announcement
\* of that port, the first thing a child does; cmd_seq is not read again
Announce(c, port) ==
    /\ c \in 1..Len(transfers)
    /\ transfers[c].pc = "forked"
    /\ port \in FreePorts(transfers)
    /\ transfers' = [transfers EXCEPT ![c] =
                        [@ EXCEPT !.pc = "listen", !.seq = 0, !.port = port]]
    /\ last' = [by |-> "transfer", cmd |-> "announce", data |-> <<>>, param |-> c,
                seq |-> 0, replies |-> <<Announcement(transfers[c], port)>>]
    /\ UNCHANGED <<disk, isize>>
    /\ UNCHANGED Dispatcher

\* the inode a child's open(O_CREAT) makes when the path has no entry
NewInode(c) == Len(indexed) + c

\* receive_file creating the file before it waits for the client
Timeout_Creates(c) ==
    /\ c \in 1..Len(transfers)
    /\ transfers[c].pc = "listen"
    /\ transfers' = [transfers EXCEPT ![c] = Exited(@, "timeout")]
    /\ last' = Stepped(c, "timeout")
    /\ disk' = IF transfers[c].kind = "upload" /\ ~Exists(disk, transfers[c].path)
               THEN [disk EXCEPT ![transfers[c].path] = NewInode(c)]
               ELSE disk
    /\ UNCHANGED isize
    /\ UNCHANGED Dispatcher

\* select() returns 0: nobody connected within TIMEOUT (lines 330 / 403);
\* receive_file then skips the unlink (error_occurred is false), both close
\* the sockets and exit
Timeout(c) ==
    /\ c \in 1..Len(transfers)
    /\ transfers[c].pc = "listen"
    /\ transfers' = [transfers EXCEPT ![c] = Exited(@, "timeout")]
    /\ last' = Stepped(c, "timeout")
    /\ UNCHANGED <<disk, isize>>
    /\ UNCHANGED Dispatcher

\* the test of the while loop (line 417) after read() returned read_len, and
\* the flag set after the loop (lines 426-428)
AfterRead(t, read_len) ==
    IF t.remaining > 0 /\ read_len > 0 /\ ~t.error
    THEN [t EXCEPT !.pc = "write", !.read_len = read_len]
    ELSE [t EXCEPT !.pc = "close", !.read_len = 0, !.got = 0,
                   !.error = t.error \/ read_len < 0 \/ t.remaining # 0]

\* line 412: open(O_WRONLY | O_CREAT) gave the descriptor of inode ino
Opened(t, ino) == [t EXCEPT !.pc = "opened", !.fd = ino]

\* lines 415-416: open_files.insert in the child's copy, then the first read
Inserted(t, read_len) ==
    AfterRead([t EXCEPT !.open_files = @ \cup {t.path}], read_len)

\* receive_file, lines 403-416: accept, open(O_WRONLY | O_CREAT), insert, first
\* read
UploadConnect(c, read_len) ==
    /\ c \in 1..Len(transfers)
    /\ transfers[c].kind = "upload"
    /\ transfers[c].pc = "listen"
    /\ LET path == transfers[c].path
           ino == IF Exists(disk, path) THEN disk[path] ELSE NewInode(c)
       IN  /\ disk' = [disk EXCEPT ![path] = ino]
           /\ transfers' = [transfers EXCEPT ![c] =
                               Inserted(Opened(@, ino), read_len)]
    /\ last' = Stepped(c, "connect")
    /\ UNCHANGED isize
    /\ UNCHANGED Dispatcher

\* receive_file, lines 418-424: write() of min(read_len, remaining) bytes,
\* which returns write_len, and the next read, which returns read_len
UploadWrite(c, write_len, read_len) ==
    /\ c \in 1..Len(transfers)
    /\ transfers[c].kind = "upload"
    /\ transfers[c].pc = "write"
    /\ LET t == transfers[c]
           to_write_len == Min(t.read_len, t.remaining)
           put == Max(write_len, 0)
       IN  /\ write_len \in -1..to_write_len
           /\ isize' = [isize EXCEPT ![t.fd] = Max(@, t.off + put)]
           /\ transfers' = [transfers EXCEPT ![c] =
                 AfterRead([t EXCEPT !.off = t.off + put,
                                     !.got = t.got + t.read_len,
                                     !.remaining = t.remaining - write_len,
                                     !.error = write_len # to_write_len],
                           read_len)]
    /\ last' = Stepped(c, "write")
    /\ UNCHANGED disk
    /\ UNCHANGED Dispatcher

\* receive_file, lines 429-440: close, unlink on error, exit
UploadClose(c) ==
    /\ c \in 1..Len(transfers)
    /\ transfers[c].kind = "upload"
    /\ transfers[c].pc = "close"
    /\ LET t == transfers[c]
       IN  /\ disk' = IF t.error THEN Unlink(disk, t.path) ELSE disk
           /\ transfers' = [transfers EXCEPT ![c] =
                               Exited(t, IF t.error THEN "failed" ELSE "ok")]
    /\ isize' = Reclaim(disk', transfers', isize)
    /\ last' = Stepped(c, "close")
    /\ UNCHANGED Dispatcher

\* send_file, lines 330-340: accept, open(O_RDONLY); open throws when absent
FetchConnect(c) ==
    /\ c \in 1..Len(transfers)
    /\ transfers[c].kind = "fetch"
    /\ transfers[c].pc = "listen"
    /\ LET t == transfers[c]
       IN  transfers' = [transfers EXCEPT ![c] =
              IF Exists(disk, t.path)
              THEN [t EXCEPT !.pc = "send", !.fd = disk[t.path]]
              ELSE Exited(t, "threw")]
    /\ last' = Stepped(c, "connect")
    /\ UNCHANGED <<disk, isize>>
    /\ UNCHANGED Dispatcher

\* send_file, lines 341-356: read a chunk of the file, write it to the client
FetchSend(c, snd_ok) ==
    /\ c \in 1..Len(transfers)
    /\ transfers[c].kind = "fetch"
    /\ transfers[c].pc = "send"
    /\ LET t == transfers[c]
           read_len == Min(BSIZE, isize[t.fd] - t.off)
       IN  transfers' = [transfers EXCEPT ![c] =
              IF read_len > 0
              THEN IF snd_ok THEN [t EXCEPT !.off = t.off + read_len]
                   ELSE Exited(t, "threw")
              ELSE Exited(t, "ok")]
    /\ isize' = Reclaim(disk, transfers', isize)
    /\ last' = Stepped(c, "send")
    /\ UNCHANGED disk
    /\ UNCHANGED Dispatcher

\* receive_file, lines 403-414: accept and open(O_WRONLY | O_CREAT), up to the
\* point where the file exists and open_files does not name it yet
UploadOpen(c) ==
    /\ c \in 1..Len(transfers)
    /\ transfers[c].kind = "upload"
    /\ transfers[c].pc = "listen"
    /\ LET path == transfers[c].path
           ino == IF Exists(disk, path) THEN disk[path] ELSE NewInode(c)
       IN  /\ disk' = [disk EXCEPT ![path] = ino]
           /\ transfers' = [transfers EXCEPT ![c] = Opened(@, ino)]
    /\ last' = Stepped(c, "open")
    /\ UNCHANGED isize
    /\ UNCHANGED Dispatcher

\* receive_file, lines 415-416: open_files.insert and the first read
UploadInsert(c, read_len) ==
    /\ c \in 1..Len(transfers)
    /\ transfers[c].kind = "upload"
    /\ transfers[c].pc = "opened"
    /\ transfers' = [transfers EXCEPT ![c] = Inserted(@, read_len)]
    /\ last' = Stepped(c, "insert")
    /\ UNCHANGED <<disk, isize>>
    /\ UNCHANGED Dispatcher

(***************************************************************************)
(* SIGINT: catch_sigint and clean_up, in the parent and in the children    *)
(* (which inherit the handler).  The server leads its process group, as    *)
(* when an interactive shell started it, so the parent's kill reaches      *)
(* every child; a child's own kill(-getpid()) names no group and fails.    *)
(***************************************************************************)
\* state.open_files of the parent: lines 415 and 437 run in children only
ParentOpenFiles == {}

\* the loop of lines 71-73
UnlinkAll(d, paths) == [p \in DOMAIN d |-> IF p \in paths THEN 0 ELSE d[p]]

\* clean_up in a process holding open_files: <<drops made so far, disk>> after
clean_up(is_parent, open_files, n, d) ==
    <<IF is_parent THEN n + 1 ELSE n, UnlinkAll(d, open_files)>>

\* kill(-getpid(), SIGINT) of the parent: a SIGINT is sent to every living child
Killed(ts) ==
    [c \in 1..Len(ts) |->
        IF ts[c].pc = "exited" THEN ts[c] ELSE [ts[c] EXCEPT !.sigint = TRUE]]

\* the parent handles SIGINT: clean_up, exit(-1)
Sigint ==
    /\ dispatcher = "serving"
    /\ LET done == clean_up(TRUE, ParentOpenFiles, drops, disk)
       IN  /\ drops' = done[1]
           /\ disk' = done[2]
    /\ transfers' = Killed(transfers)
    /\ isize' = Reclaim(disk', transfers', isize)
    /\ dispatcher' = "interrupted"
    /\ last' = [by |-> "signal", cmd |-> "SIGINT", data |-> <<>>, param |-> 0,
                seq |-> 0, replies |-> <<>>]
    /\ UNCHANGED <<options, indexed, available_space, negative_space, files,
                   fork_limit>>

\* child c handles the SIGINT sent to it: clean_up on its own copy, exit(-1)
ChildSigint(c) ==
    /\ c \in 1..Len(transfers)
    /\ transfers[c].sigint
    /\ transfers[c].pc # "exited"
    /\ LET done == clean_up(FALSE, transfers[c].open_files, drops, disk)
       IN  /\ drops' = done[1]
           /\ disk' = done[2]
    /\ transfers' = [transfers EXCEPT ![c] = Exited(@, "interrupted")]
    /\ isize' = Reclaim(disk', transfers', isize)
    /\ last' = Stepped(c, "sigint")
    /\ UNCHANGED <<options, indexed, available_space, negative_space, files,
                   fork_limit, dispatcher>>

(***************************************************************************)
(* The server.                                                             *)
(***************************************************************************)
Seqs == 0..MaxSeq
Children == 1..MaxChildren

Next ==
    \/ \E d \in RequestNames, q \in Seqs : Discover(d, q)
    \/ \E d \in RequestNames, q \in Seqs : Remove(d, q)
    \/ \E d \in RequestNames, q \in Seqs : List(d, q)
    \/ \E d \in RequestNames, q \in Seqs, f \in BOOLEAN : Fetch(d, q, f)
    \/ \E d \in RequestNames, p \in 0..MaxParam, q \in Seqs, f \in BOOLEAN :
          Upload(d, p, q, f)
    \/ \E q \in Seqs : Unrecognized(q)
    \/ ReceiveFails
    \/ \E c \in Children, port \in Ports : Announce(c, port)
    \/ \E c \in Children : Timeout(c)
    \/ \E c \in Children, n \in -1..MaxChunk : UploadConnect(c, n)
    \/ \E c \in Children, w \in -1..MaxChunk, n \in -1..MaxChunk :
          UploadWrite(c, w, n)
    \/ \E c \in Children : UploadClose(c)
    \/ \E c \in Children : FetchConnect(c)
    \/ \E c \in Children, ok \in BOOLEAN : FetchSend(c, ok)

Spec == Init /\ [][Next]_vars

(***************************************************************************)
(* The searches: list applied to every catalog of at most MaxCatalog of    *)
(* the search names, for every search string and sequence number.  The     *)
(* server starts on a folder of empty files with these names.              *)
(***************************************************************************)
Catalogs ==
    UNION {{l \in [1..n -> SearchNames] : \A i, j \in 1..n : l[i] = l[j] => i = j} :
           n \in 0..MaxCatalog}

SearchInit ==
    /\ options = Options(MaxSpace)
    /\ \E l \in Catalogs : indexed = [i \in 1..Len(l) |-> [name |-> l[i], size |-> 0]]
    /\ available_space = index_files(options, indexed)[1]
    /\ negative_space = index_files(options, indexed)[2]
    /\ files = CatalogOf(indexed)
    /\ disk = [p \in DiskPaths |->
                 IF \E i \in 1..Len(indexed) : PathOf(indexed[i].name) = p
                 THEN CHOOSE i \in 1..Len(indexed) : PathOf(indexed[i].name) = p
                 ELSE 0]
    /\ isize = [k \in InoIds |-> 0]
    /\ transfers = <<>>
    /\ fork_limit = 0
    /\ dispatcher = "serving"
    /\ drops = 0
    /\ last = NoRequest

SearchNext == \E d \in SearchTargets, q \in Seqs : List(d, q)

SearchSpec == SearchInit /\ [][SearchNext]_vars

(***************************************************************************)
(* Startup: index_files taken one file at a time, on every folder of at    *)
(* most MaxCatalog files, in every order of their sizes, under every quota.*)
(***************************************************************************)
IndexNames == <<<<"a">>, <<"a", "b">>, <<"b", "b", "b">>, <<"a", Sep, "b">>,
                <<"b", "a", "b", "a">>>>

\* the names a folder of these runs may hold
FolderNames == {IndexNames[i] : i \in 1..Min(MaxCatalog, Len(IndexNames))}

\* what the directory iterator may enumerate: files of distinct names, in any
\* order (the order of fs::directory_iterator is unspecified), of any sizes
Folders ==
    UNION {{l \in [1..n -> [name : FolderNames, size : 0..MaxFileSize]] :
               \A i, j \in 1..n : l[i].name = l[j].name => i = j} :
           n \in 0..Cardinality(FolderNames)}

\* index_files after line 148, before the first iteration
IndexInit ==
    /\ \E q \in 0..MaxSpace : options = Options(q)
    /\ indexed \in Folders
    /\ available_space = options.MAX_SPACE
    /\ negative_space = 0
    /\ files = <<>>
    /\ disk = [p \in DiskPaths |->
                 IF \E i \in 1..Len(indexed) : PathOf(indexed[i].name) = p
                 THEN CHOOSE i \in 1..Len(indexed) : PathOf(indexed[i].name) = p
                 ELSE 0]
    /\ isize = [k \in InoIds |-> IF k <= Len(indexed) THEN indexed[k].size ELSE 0]
    /\ transfers = <<>>
    /\ fork_limit = 0
    /\ dispatcher = "starting"
    /\ drops = 0
    /\ last = NoRequest

\* one iteration of the loop (lines 153-167) on the next directory entry
IndexFile ==
    /\ dispatcher = "starting"
    /\ Len(files) < Len(indexed)
    /\ LET entry == indexed[Len(files) + 1]
           ledger == reserve(<<available_space, negative_space>>,
                             isize[disk[PathOf(entry.name)]])
       IN  /\ files' = Append(files, PathOf(entry.name))
           /\ available_space' = ledger[1]
           /\ negative_space' = ledger[2]
    /\ UNCHANGED <<options, indexed, disk, isize, transfers, fork_limit, dispatcher,
                   drops, last>>

IndexNext == IndexFile

IndexSpec == IndexInit /\ [][IndexNext]_vars

(***************************************************************************)
(* The ledger: the server started on each of these folders, under every    *)
(* quota, and on the scenario of the specification, receiving removes and  *)
(* uploads; the uploading clients never connect, so the sizes on disk are  *)
(* those found at startup.                                                 *)
(***************************************************************************)
LedgerConfigs ==
    {<<Options(q), l>> : q \in 0..MaxSpace, l \in Folders}
        \cup {<<ExampleOptions, ExampleListing>>}

LedgerInit ==
    /\ \E cfg \in LedgerConfigs :
          /\ options = cfg[1]
          /\ indexed = cfg[2]
    /\ available_space = index_files(options, indexed)[1]
    /\ negative_space = index_files(options, indexed)[2]
    /\ files = CatalogOf(indexed)
    /\ disk = [p \in DiskPaths |->
                 IF \E i \in 1..Len(indexed) : PathOf(indexed[i].name) = p
                 THEN CHOOSE i \in 1..Len(indexed) : PathOf(indexed[i].name) = p
                 ELSE 0]
    /\ isize = [k \in InoIds |-> IF k <= Len(indexed) THEN indexed[k].size ELSE 0]
    /\ transfers = <<>>
    /\ fork_limit = MaxTransfers
    /\ dispatcher = "serving"
    /\ drops = 0
    /\ last = NoRequest

LedgerNext ==
    \/ \E d \in FolderNames : Remove(d, 0)
    \/ \E d \in ValidNames, p \in 0..MaxParam : Upload(d, p, 0, TRUE)
    \/ \E c \in Children, port \in Ports : Announce(c, port)
    \/ \E c \in Children : Timeout(c)

LedgerSpec == LedgerInit /\ [][LedgerNext]_vars

(***************************************************************************)
(* Concurrent transfers: the server on an empty folder with the whole      *)
(* quota free, one file name, and as many children as the bounds allow.    *)
(***************************************************************************)
EmptyFolderInit ==
    /\ options = Options(MaxSpace)
    /\ indexed = <<>>
    /\ available_space = index_files(options, indexed)[1]
    /\ negative_space = index_files(options, indexed)[2]
    /\ files = CatalogOf(indexed)
    /\ disk = [p \in DiskPaths |-> 0]
    /\ isize = [k \in InoIds |-> 0]
    /\ transfers = <<>>
    /\ dispatcher = "serving"
    /\ drops = 0
    /\ last = NoRequest

ConcurrentInit == EmptyFolderInit /\ fork_limit = MaxChildren

OneName == {<<"a">>}

ConcurrentNext ==
    \/ \E d \in OneName : Remove(d, 0)
    \/ \E d \in OneName : Fetch(d, 0, TRUE)
    \/ \E d \in OneName, p \in 0..MaxParam : Upload(d, p, 0, TRUE)
    \/ \E c \in Children, port \in Ports : Announce(c, port)
    \/ \E c \in Children : Timeout(c)
    \/ \E c \in Children, n \in -1..MaxChunk : UploadConnect(c, n)
    \/ \E c \in Children, w \in -1..MaxChunk, n \in -1..MaxChunk :
          UploadWrite(c, w, n)
    \/ \E c \in Children : UploadClose(c)
    \/ \E c \in Children : FetchConnect(c)
    \/ \E c \in Children, ok \in BOOLEAN : FetchSend(c, ok)

ConcurrentSpec == ConcurrentInit /\ [][ConcurrentNext]_vars

\* select() wakes a waiting child when TIMEOUT has passed, whatever the other
\* processes do
FairSpec == ConcurrentSpec /\ \A c \in Children : WF_vars(Timeout(c))

(***************************************************************************)
(* Shutdown: the same server with the SIGINT handlers, and with the open   *)
(* of receive_file apart from its open_files.insert, since a signal can    *)
(* arrive between the two.                                                 *)
(***************************************************************************)
ShutdownInit == EmptyFolderInit /\ fork_limit = MaxChildren

ShutdownNext ==
    \/ \E d \in OneName : Remove(d, 0)
    \/ \E d \in OneName : Fetch(d, 0, TRUE)
    \/ \E d \in OneName, p \in 0..MaxParam : Upload(d, p, 0, TRUE)
    \/ \E c \in Children, port \in Ports : Announce(c, port)
    \/ \E c \in Children : Timeout(c)
    \/ \E c \in Children : UploadOpen(c)
    \/ \E c \in Children, n \in -1..MaxChunk : UploadInsert(c, n)
    \/ \E c \in Children, w \in -1..MaxChunk, n \in -1..MaxChunk :
          UploadWrite(c, w, n)
    \/ \E c \in Children : UploadClose(c)
    \/ \E c \in Children : FetchConnect(c)
    \/ \E c \in Children, ok \in BOOLEAN : FetchSend(c, ok)
    \/ Sigint
    \/ \E c \in Children : ChildSigint(c)

ShutdownSpec == ShutdownInit /\ [][ShutdownNext]_vars

(***************************************************************************)
(* Vocabulary of the properties.                                           *)
(***************************************************************************)
InCatalog(fs, name) == \E i \in 1..Len(fs) : Filename(fs[i]) = name

\* the size of a path's file, 0 when there is none
SizeOf(path) == IF Exists(disk, path) THEN isize[disk[path]] ELSE 0

RECURSIVE SumSizes(_)
SumSizes(fs) == IF fs = <<>> THEN 0 ELSE SizeOf(Head(fs)) + SumSizes(Tail(fs))

RECURSIVE SumListing(_)
SumListing(l) == IF l = <<>> THEN 0 ELSE Head(l).size + SumListing(Tail(l))

ByDispatcher(cmd) == last.by = "dispatcher" /\ last.cmd = cmd

\* the names of fs that contain target, in the order of fs
RECURSIVE Expected(_, _)
Expected(fs, target) ==
    IF fs = <<>> THEN <<>>
    ELSE LET name == Filename(Head(fs))
             hit == \E i \in 1..(Len(name) + 1) : \E j \in (i - 1)..Len(name) :
                        SubSeq(name, i, j) = target
         IN  (IF hit THEN <<name>> ELSE <<>>) \o Expected(Tail(fs), target)

RECURSIVE Join(_)
Join(strings) ==
    IF strings = <<>> THEN <<>>
    ELSE IF Len(strings) = 1 THEN strings[1]
    ELSE strings[1] \o <<Sep>> \o Join(Tail(strings))

\* the pieces of a payload between separators
RECURSIVE Split(_)
Split(payload) ==
    LET seps == {i \in 1..Len(payload) : payload[i] = Sep}
        first == CHOOSE i \in seps : \A j \in seps : i <= j
    IN  IF seps = {} THEN <<payload>>
        ELSE <<SubSeq(payload, 1, first - 1)>>
                 \o Split(SubSeq(payload, first + 1, Len(payload)))

RECURSIVE SplitAll(_)
SplitAll(payloads) ==
    IF payloads = <<>> THEN <<>> ELSE Split(Head(payloads)) \o SplitAll(Tail(payloads))

Payloads == [i \in 1..Len(last.replies) |-> last.replies[i].data]
EchoesRequest ==
    \A i \in 1..Len(last.replies) :
        last.replies[i].cmd = "MY_LIST" /\ last.replies[i].seq = last.seq

(***************************************************************************)
(* Search (SearchSpec).                                                    *)
(***************************************************************************)
\* C6: every MY_LIST payload of a search is strictly shorter than
\* MAX_SIMPL_DATA_LEN when every catalog name is.
C6_PayloadBound ==
    (ByDispatcher("LIST")
        /\ \A i \in 1..Len(files) : Len(Filename(files[i])) < MAX_SIMPL_DATA_LEN)
    => \A i \in 1..Len(last.replies) : Len(last.replies[i].data) < MAX_SIMPL_DATA_LEN

\* C7: a search that matches no catalog name is answered by exactly one MY_LIST
\* datagram with an empty payload and the request's sequence number.
C7_EmptyReply ==
    (ByDispatcher("LIST") /\ Expected(files, last.data) = <<>>)
    => last.replies = <<Message("MY_LIST", <<>>, last.seq, 0)>>

\* C8 as claimed: for every catalog, the pieces of the payloads between
\* separators, in send order, are exactly the matching names in catalog order,
\* and every reply carries the request's sequence number.
C8_SplitAnyCatalog ==
    ByDispatcher("LIST")
    => /\ SplitAll(Payloads) = Expected(files, last.data)
       /\ EchoesRequest

\* C8 as amended: the payloads joined by the separator, in send order, are the
\* matching names joined by the separator, in catalog order, and no reply is sent
\* when nothing matches; so the pieces between separators are exactly the
\* matching names whenever no catalog name contains the separator; every reply
\* is a MY_LIST carrying the request's sequence number.
C8_JoinedNames ==
    ByDispatcher("LIST")
    => /\ Join(Payloads) = Join(Expected(files, last.data))
       /\ (Payloads = <<>>) = (Expected(files, last.data) = <<>>)
       /\ \A i \in 1..Len(Payloads) : Payloads[i] # <<>>
       /\ (\A i \in 1..Len(files) : ~HasChar(Filename(files[i]), Sep))
              => SplitAll(Payloads) = Expected(files, last.data)
       /\ EchoesRequest

\* a search answered in two datagrams that leaves some catalog names out
C8_Witness ==
    /\ ByDispatcher("LIST")
    /\ Len(last.replies) = 2
    /\ last.seq = 1
    /\ Len(Expected(files, last.data)) = 2
    /\ Len(files) = 3
    /\ \A i \in 1..Len(files) : ~HasChar(Filename(files[i]), Sep)

(***************************************************************************)
(* The server (Spec).                                                      *)
(***************************************************************************)
UploadStep == last'.by = "dispatcher" /\ last'.cmd = "ADD"
RemoveStep == last'.by = "dispatcher" /\ last'.cmd = "DEL"

NoWay == <<Message("NO_WAY", last.data, last.seq, 0)>>

\* the child forked for the upload just accepted
Spawned ==
    /\ Len(transfers') = Len(transfers) + 1
    /\ SubSeq(transfers', 1, Len(transfers)) = transfers
    /\ LET t == transfers'[Len(transfers')]
       IN  /\ t.kind = "upload" /\ t.pc = "forked"
           /\ t.seq = last'.seq
           /\ t.data = last'.data /\ t.param = last'.param
           /\ t.path = PathOf(last'.data)

\* C1: an upload request (F, S) is accepted (S charged, F appended to the
\* catalog, a child forked, unless fork itself fails and ends the server) if and
\* only if S <= available_space, F is not in the catalog, F has no '/' and F is
\* not empty; otherwise NO_WAY is answered and available_space, negative_space
\* and the catalog stay as they were.
C1_Admission ==
    [][UploadStep =>
          LET F == last'.data
              S == last'.param
          IN  IF /\ S <= available_space
                 /\ ~InCatalog(files, F)
                 /\ ~HasChar(F, Slash)
                 /\ F # <<>>
              THEN /\ available_space' = available_space - S
                   /\ negative_space' = negative_space
                   /\ files' = Append(files, PathOf(F))
                   /\ last'.replies = <<>>
                   /\ \/ Spawned /\ dispatcher' = "serving"
                      \/ transfers' = transfers /\ dispatcher' = "terminated"
              ELSE /\ last'.replies = <<Message("NO_WAY", F, last'.seq, 0)>>
                   /\ UNCHANGED <<available_space, negative_space, files, transfers,
                                  disk, isize, dispatcher>>]_vars

\* an upload accepted with the space it asked for, its child just forked
C1_Witness ==
    /\ ByDispatcher("ADD")
    /\ last.replies = <<>>
    /\ last.param > 0
    /\ available_space = options.MAX_SPACE - SumListing(indexed) - last.param
    /\ Len(transfers) = 1
    /\ transfers[1].pc = "forked"
    /\ transfers[1].data = last.data
    /\ transfers[1].seq = last.seq
    /\ dispatcher = "serving"
    /\ InCatalog(files, last.data)

NoDuplicates ==
    \A i, j \in 1..Len(files) : Filename(files[i]) = Filename(files[j]) => i = j

\* C2: no two catalog entries have the same name; a name leaves the catalog only
\* by a remove of that name, so the entry of an accepted upload stays while the
\* upload is pending, after it completed and after it failed; and an upload
\* request for a name in the catalog is refused.
C2_Unique ==
    /\ []NoDuplicates
    /\ [][/\ \A i \in 1..Len(files) :
                 ~InCatalog(files', Filename(files[i]))
                     => RemoveStep /\ last'.data = Filename(files[i])
          /\ (UploadStep /\ InCatalog(files, last'.data))
                 => /\ last'.replies = <<Message("NO_WAY", last'.data, last'.seq, 0)>>
                    /\ UNCHANGED <<files, transfers, available_space>>]_vars

\* a second upload of a name refused, with space to spare, after the first failed
C2_Witness ==
    /\ ByDispatcher("ADD")
    /\ last.replies = NoWay
    /\ last.param <= available_space
    /\ \E c \in 1..Len(transfers) :
          /\ transfers[c].kind = "upload"
          /\ transfers[c].data = last.data
          /\ transfers[c].result = "failed"

UploadInProgress ==
    \E c \in 1..Len(transfers) :
        transfers[c].kind = "upload" /\ transfers[c].pc # "exited"

\* C3: when no upload is in progress, available_space - negative_space is the
\* quota less the sizes of the files in the catalog (stated for the states in
\* which every file of the catalog is on disk, where those sizes are defined).
C3_Conservation ==
    (/\ ~UploadInProgress
     /\ \A i \in 1..Len(files) : Exists(disk, files[i]))
    => available_space - negative_space = options.MAX_SPACE - SumSizes(files)

\* C4: a remove of a catalogued file of size x, with debt d and a bytes
\* available, leaves negative_space = d - min(d, x) and available_space =
\* a + (x - min(d, x)); with quota 100 and one startup file of 150 bytes the
\* ledger is 0 / 50 after indexing and 100 / 0 after the remove.  Checked in
\* LedgerSpec, whose folders of several files give removes with d > x > 0,
\* d = x, d < x and d = 0.
C4_Refund ==
    [][(RemoveStep /\ files' # files) =>
          LET x == SizeOf(files[FindFile(files, last'.data)])
              d == negative_space
              a == available_space
          IN  /\ negative_space' = d - Min(d, x)
              /\ available_space' = a + (x - Min(d, x))
              /\ (options = ExampleOptions /\ transfers = <<>>)
                     => /\ a = 0 /\ d = 50
                        /\ available_space' = 100 /\ negative_space' = 0]_vars

\* the one remove so far took a file smaller than the debt: a part of the
\* debt is repaid, the rest remains and no capacity is restored
C4_Witness ==
    /\ ByDispatcher("DEL")
    /\ transfers = <<>>
    /\ Len(files) = Len(indexed) - 1
    /\ \A i \in 1..Len(files) : files[i] # PathOf(last.data)
    /\ \E i \in 1..Len(indexed) :
          /\ indexed[i].name = last.data
          /\ indexed[i].size > 0
          /\ indexed[i].size < SumListing(indexed) - options.MAX_SPACE
          /\ negative_space = SumListing(indexed) - options.MAX_SPACE - indexed[i].size
    /\ available_space = 0

\* C5: available_space is within 0..quota and negative_space within 0..the
\* debt the startup files left, in every reachable state: neither counter wraps.
C5_Bounds ==
    /\ available_space \in 0..options.MAX_SPACE
    /\ negative_space \in 0..Max(0, SumListing(indexed) - options.MAX_SPACE)

\* a startup file removed while the server was in debt, after an upload
C5_Witness ==
    /\ ByDispatcher("DEL")
    /\ SumListing(indexed) > options.MAX_SPACE
    /\ Len(transfers) = 1
    /\ transfers[1].kind = "upload"
    /\ ~InCatalog(files, indexed[1].name)

\* C9: after an accepted upload ended in failure (nobody connected, the stream
\* ended early, a short write) the catalog holds no entry of that upload whose
\* file is absent.
C9_NoGhost ==
    \A c \in 1..Len(transfers) :
        (/\ transfers[c].kind = "upload"
         /\ transfers[c].result \in {"timeout", "failed"})
        => \A i \in 1..Len(files) :
              files[i] = transfers[c].path => Exists(disk, files[i])

\* C10: no datagram handled while a transfer is waiting for its client, or after
\* one timed out or failed, ends the dispatcher loop (fork failing aside).
C10_Contained ==
    [][(/\ last'.by = "dispatcher"
        /\ last'.cmd \in {"DEL", "LIST", "HELLO", "?"}
        /\ \E c \in 1..Len(transfers) :
              \/ transfers[c].pc = "listen"
              \/ transfers[c].result \in {"timeout", "failed"})
       => dispatcher' = "serving"]_vars

(***************************************************************************)
(* Concurrent transfers (ConcurrentSpec).                                  *)
(***************************************************************************)
\* the latest child forked before c for an upload of the path c serves, or 0
UploadBefore(c) ==
    LET ups == {u \in 1..(c - 1) : /\ transfers[u].kind = "upload"
                                  /\ transfers[u].path = transfers[c].path}
    IN  IF ups = {} THEN 0 ELSE CHOOSE u \in ups : \A v \in ups : v <= u

\* child c, serving a fetch whose client connected and kept reading, ends
FetchEnds(c) ==
    /\ transfers[c].kind = "fetch"
    /\ transfers[c].pc # "exited"
    /\ transfers'[c].pc = "exited"
    /\ transfers'[c].result # "timeout"
    /\ ~(transfers[c].pc = "send" /\ transfers'[c].result = "threw")

\* C11: a fetch of F issued after an upload of F with declared size S was
\* accepted, and whose uploading client has not failed, ends normally having
\* delivered exactly S bytes, never fewer.
C11_RoundTrip ==
    [][\A c \in 1..Len(transfers) :
          (/\ FetchEnds(c)
           /\ UploadBefore(c) # 0
           /\ transfers'[UploadBefore(c)].result \notin {"timeout", "failed"})
          => /\ transfers'[c].result = "ok"
             /\ transfers[c].off = transfers[UploadBefore(c)].param]_vars

\* C14: no two children hold the same file open for writing, and a failing
\* upload child unlinks its path only when the file there is the one it opened
\* itself (or when nothing is there).
C14_Exclusive ==
    /\ [](\A c, e \in 1..Len(transfers) :
             (/\ c # e
              /\ transfers[c].kind = "upload" /\ transfers[e].kind = "upload"
              /\ transfers[c].fd # 0)
             => transfers[c].fd # transfers[e].fd)
    /\ [][\A c \in 1..Len(transfers) :
             (/\ transfers[c].kind = "upload"
              /\ transfers[c].pc = "close"
              /\ transfers'[c].pc = "exited"
              /\ transfers[c].error
              /\ Exists(disk, transfers[c].path))
             => disk[transfers[c].path] = transfers[c].fd]_vars

(***************************************************************************)
(* Timeouts (FairSpec).                                                    *)
(***************************************************************************)
Waiting(c) == c \in 1..Len(transfers) /\ transfers[c].pc = "listen"

\* C12: a child whose client does not connect within the timeout sends no byte
\* of the file (fetch), leaves no file at its path (upload) and changes no file,
\* closes its listening socket and is gone; and a waiting child does not wait
\* for ever: it gets its client or it times out.
C12_Timeout ==
    /\ [][\A c \in 1..Len(transfers) :
             (Waiting(c) /\ transfers'[c].result = "timeout")
             => /\ transfers'[c].pc = "exited"
                /\ transfers'[c].sock = "closed"
                /\ transfers[c].off = 0 /\ transfers[c].fd = 0
                /\ transfers[c].kind = "upload" => ~Exists(disk', transfers[c].path)
                /\ UNCHANGED <<disk, isize>>]_vars
    /\ \A c \in Children : Waiting(c) ~> ~Waiting(c)

\* an upload and a fetch of its name, both timed out
C12_Witness ==
    /\ Len(transfers) = 2
    /\ transfers[1].kind = "upload" /\ transfers[1].result = "timeout"
    /\ transfers[2].kind = "fetch" /\ transfers[2].result = "timeout"
    /\ transfers[2].path = transfers[1].path
    /\ ~Exists(disk, transfers[1].path)

(***************************************************************************)
(* Shutdown (ShutdownSpec).                                                *)
(***************************************************************************)
AllExited == \A c \in 1..Len(transfers) : transfers[c].pc = "exited"

\* C13: once the parent has handled SIGINT and every child is gone, the
\* multicast membership has been dropped exactly once, and no file that an
\* upload created and did not complete is left in the folder.
C13_Shutdown ==
    (dispatcher = "interrupted" /\ AllExited)
    => /\ drops = 1
       /\ \A c \in 1..Len(transfers) :
             (transfers[c].kind = "upload" /\ transfers[c].result = "interrupted")
             => \A p \in DOMAIN disk : disk[p] # NewInode(c)

(***************************************************************************)
(* Fatal errors of the dispatcher (Spec).                                  *)
(***************************************************************************)
\* C15: once an exception has ended the dispatcher (recvfrom failed, fork
\* failed, or file_size threw in remove), no child is still running and no file
\* of an upload that did not complete is left in the folder.
C15_FatalCleanup ==
    dispatcher = "terminated"
    => \A c \in 1..Len(transfers) :
          /\ transfers[c].pc = "exited"
          /\ (transfers[c].kind = "upload" /\ transfers[c].result # "ok")
                 => \A p \in DOMAIN disk : disk[p] # NewInode(c)

(***************************************************************************)
(* The receive loop (Spec).                                                *)
(***************************************************************************)
Uploading(c) == c \in 1..Len(transfers) /\ transfers[c].kind = "upload"

\* C16: the file of an upload of declared size S never holds more than S bytes,
\* and every write puts the bytes of the stream at their own offset; when the
\* child leaves the loop with exactly S bytes written the file is kept, S bytes
\* long (unless a remove took it away meanwhile); otherwise the transfer is flagged failed and the file is unlinked; in
\* both cases the ledger and the catalog stay as they were.
C16_ReceiveLoop ==
    /\ [](\A c \in 1..Len(transfers) :
             (Uploading(c) /\ transfers[c].fd # 0)
             => /\ transfers[c].off <= transfers[c].param
                /\ isize[transfers[c].fd] <= transfers[c].param)
    /\ [][\A c \in 1..Len(transfers) :
             /\ (Uploading(c) /\ transfers[c].pc = "write" /\ transfers'[c] # transfers[c])
                    => transfers[c].got = transfers[c].off
             /\ (Uploading(c) /\ transfers[c].pc = "close" /\ transfers'[c].pc = "exited")
                    => /\ IF transfers[c].off = transfers[c].param
                          THEN /\ transfers'[c].result = "ok"
                               /\ disk[transfers[c].path] = transfers[c].fd
                                      => SizeOf(transfers[c].path)' = transfers[c].param
                               /\ disk' = disk
                          ELSE /\ transfers[c].error
                               /\ transfers'[c].result = "failed"
                               /\ ~Exists(disk', transfers[c].path)
                       /\ UNCHANGED <<available_space, negative_space, files>>]_vars

(***************************************************************************)
(* The children and the dispatcher's loop (Spec).                          *)
(***************************************************************************)
\* C17: a child that left send_file or receive_file, by exit or by an exception,
\* is gone and stays gone: it is never found in the loop of read_requests; the
\* only datagram a child sends is the announcement of its port, as its first
\* step; and no step of a child changes the catalog, the ledger or the state of
\* the dispatcher.
C17_NeverServes ==
    /\ [](\A c \in 1..Len(transfers) :
             /\ transfers[c].pc # "serving"
             /\ transfers[c].result # "none" => transfers[c].pc = "exited")
    /\ [][/\ \A c \in 1..Len(transfers) :
                transfers[c].pc = "exited" => transfers'[c] = transfers[c]
          /\ last'.by = "transfer"
                => /\ \/ last'.replies = <<>>
                      \/ /\ transfers[last'.param].pc = "forked"
                         /\ Len(last'.replies) = 1
                         /\ last'.replies[1].cmd \in {"CAN_ADD", "CONNECT_ME"}
                         /\ last'.replies[1].seq = transfers[last'.param].seq
                   /\ UNCHANGED <<files, available_space, negative_space,
                                  dispatcher>>]_vars

\* the dispatcher handling a datagram after its child died of an exception
C17_Witness ==
    /\ Len(transfers) = 1
    /\ transfers[1].result = "threw"
    /\ ByDispatcher("LIST")
    /\ dispatcher = "serving"

(***************************************************************************)
(* Remove (Spec).                                                          *)
(***************************************************************************)
\* C18: a remove naming a catalogued file F leaves F out of the catalog, its
\* file unlinked, the other entries as they were and in the same order, every
\* other file in place, and the ledger moved by the size of F's file; a remove
\* naming a file that is not in the catalog is not answered and changes neither
\* the catalog, nor the ledger, nor any file.
C18_RemoveFrame ==
    [][(RemoveStep /\ last'.data # <<>>) =>
          LET F == last'.data
              i == FindFile(files, F)
          IN  IF InCatalog(files, F)
              THEN /\ ~InCatalog(files', F)
                   /\ files' = Erase(files, i)
                   /\ ~Exists(disk', files[i])
                   /\ \A p \in DOMAIN disk : p # files[i] => disk'[p] = disk[p]
                   /\ available_space' - negative_space'
                         = available_space - negative_space + SizeOf(files[i])
                   /\ last'.replies = <<>>
                   /\ dispatcher' = dispatcher
              ELSE /\ last'.replies = <<>>
                   /\ UNCHANGED <<files, available_space, negative_space, disk,
                                  isize, transfers, dispatcher>>]_vars

(***************************************************************************)
(* Startup indexing (IndexSpec).                                           *)
(***************************************************************************)
Reverse(l) == [i \in 1..Len(l) |-> l[Len(l) + 1 - i]]

\* C19: after index_files has taken the first k files, in whatever order they
\* come, available_space = max(0, Q - sum) and negative_space = max(0, sum - Q)
\* for the sum of their sizes; so the ledger it ends with depends on the sizes
\* only, and is the one the same files give in the opposite order.
C19_OrderFree ==
    LET Q == options.MAX_SPACE
        sum == SumListing(SubSeq(indexed, 1, Len(files)))
    IN  /\ available_space = Max(0, Q - sum)
        /\ negative_space = Max(0, sum - Q)
        /\ Len(files) = Len(indexed)
              => /\ files = CatalogOf(indexed)
                 /\ <<available_space, negative_space>> = index_files(options, indexed)
                 /\ index_files(options, Reverse(indexed))
                       = index_files(options, indexed)

\* three files indexed, the first fitting the quota, the next ones not
C19_Witness ==
    /\ Len(indexed) = 3
    /\ Len(files) = 3
    /\ options.MAX_SPACE > 0
    /\ indexed[1].size > 0
    /\ indexed[1].size < options.MAX_SPACE
    /\ indexed[2].size > indexed[3].size
    /\ indexed[3].size > 0
    /\ negative_space > 0

(***************************************************************************)
(* Debt before capacity (LedgerSpec).                                      *)
(***************************************************************************)
\* C20: available_space and negative_space are never both positive; while there
\* is debt an upload is accepted only with declared size 0, and a remove that
\* raises available_space leaves no debt.
C20_DebtFirst ==
    /\ [](negative_space > 0 => available_space = 0)
    /\ [][negative_space > 0
            => /\ (UploadStep /\ files' # files) => last'.param = 0
               /\ (RemoveStep /\ available_space' > available_space)
                      => negative_space' = 0
               /\ (RemoveStep /\ negative_space' > 0)
                      => available_space' = 0]_vars

\* a remove that repaid a part of the debt, after an upload of size 0 was
\* accepted while the server was in debt
C20_Witness ==
    /\ ByDispatcher("DEL")
    /\ Len(files) < Len(indexed) + Len(transfers)
    /\ negative_space > 0
    /\ negative_space < SumListing(indexed) - options.MAX_SPACE
    /\ Len(transfers) = 1
    /\ transfers[1].param = 0

====
